---- MODULE Spec2Model ----
(***************************************************************************)
(* Document Agent of src/app.py: one Streamlit session whose menu is       *)
(* "Document Agent".  Every user interaction (uploading or removing a      *)
(* file, editing the query box, pressing Search) re-executes the script    *)
(* top to bottom; documents and faiss_index live in st.session_state and   *)
(* survive from one run to the next, as do the widget values.              *)
(*                                                                         *)
(* A text is kept run-length encoded: a sequence of runs [c, n] standing   *)
(* for n copies of the character c, adjacent runs having different         *)
(* characters.  A page is the text page.extract_text() returns, a file is  *)
(* the sequence of its pages.                                              *)
(***************************************************************************)
EXTENDS Integers, Sequences, FiniteSets, TLC

\* Largest number of entries of st.session_state.documents the model explores.
MaxDocs == 3

\* dimension = 384
dimension == 384

\* context[:500]
PreviewLen == 500

-----------------------------------------------------------------------------
(* Texts *)

Run(ch, k) == [c |-> ch, n |-> k]

\* s + t on strings
Concat(s, t) ==
    IF s = <<>> THEN t
    ELSE IF t = <<>> THEN s
    ELSE IF s[Len(s)].c = t[1].c
         THEN SubSeq(s, 1, Len(s) - 1)
                \o <<Run(t[1].c, s[Len(s)].n + t[1].n)>>
                \o SubSeq(t, 2, Len(t))
         ELSE s \o t

IsSpace(ch) == ch \in {" ", "\n", "\t"}

RECURSIVE LStrip(_)
LStrip(t) ==
    IF t = <<>> THEN <<>>
    ELSE IF IsSpace(t[1].c) THEN LStrip(Tail(t))
    ELSE t

RECURSIVE RStrip(_)
RStrip(t) ==
    IF t = <<>> THEN <<>>
    ELSE IF IsSpace(t[Len(t)].c) THEN RStrip(SubSeq(t, 1, Len(t) - 1))
    ELSE t

\* A strip() that removes nothing.
StripKeepsAll(t) == t

\* text.strip()
Strip(t) == RStrip(LStrip(t))

\* A slice that keeps the whole text.
SliceKeepsAll(t, k) == t

\* text[:k]
RECURSIVE Slice(_, _)
Slice(t, k) ==
    IF t = <<>> \/ k <= 0 THEN <<>>
    ELSE IF t[1].n >= k THEN <<Run(t[1].c, k)>>
    ELSE <<t[1]>> \o Slice(Tail(t), k - t[1].n)

\* text.count(ch)
RECURSIVE CountChar(_, _)
CountChar(t, ch) ==
    IF t = <<>> THEN 0
    ELSE (IF t[1].c = ch THEN t[1].n ELSE 0) + CountChar(Tail(t), ch)

-----------------------------------------------------------------------------
(* Inputs *)

\* page.extract_text() of a page with no text layer
NoText == <<>>
Blank == <<Run(" ", 2)>>
A300 == <<Run("a", 300)>>
B300 == <<Run("b", 300)>>

\* The PDF files the user may upload, each the sequence of its pages' texts.
Files ==
    { <<NoText>>,
      <<Blank, NoText>>,
      <<A300>>,
      <<A300, B300>>,
      <<Blank, B300>> }

\* The strings the user may type in "Ask about document:".
Queries == { <<>>, A300, Concat(A300, B300), B300 }

-----------------------------------------------------------------------------
(* Collaborators *)

\* for page in reader.pages: content = page.extract_text(); if content: text += content
RECURSIVE ExtractText(_)
ExtractText(pages) ==
    IF pages = <<>> THEN <<>>
    ELSE LET content == pages[Len(pages)]
             text == ExtractText(SubSeq(pages, 1, Len(pages) - 1))
         IN  IF content # <<>> THEN Concat(text, content) ELSE text

CharCode(ch) == CASE ch = "a" -> 1 [] ch = "b" -> 2 [] OTHER -> 3

\* A vector of n numbers is kept as [n, head]: the coordinates of head
\* followed by zeros up to n coordinates.
Vector(k, h) == [n |-> k, head |-> h]

\* x[i] for 1 <= i <= len(x)
Coord(x, i) == IF i <= Len(x.head) THEN x.head[i] ELSE 0

\* embed_model.encode([text])[0]: a deterministic vector of 384 numbers.  The
\* first coordinates are features of the text that tell the texts of Files
\* and Queries apart; the others are 0.
Embed(t) ==
    Vector(dimension,
           << CountChar(t, "a"),
              CountChar(t, "b"),
              CountChar(t, " "),
              IF t = <<>> THEN 0 ELSE CharCode(t[1].c) >>)

\* faiss.IndexFlatL2(dimension)
IndexFlatL2(d) == [d |-> d, xb |-> <<>>]

\* index.ntotal
ntotal(index) == Len(index.xb)

\* index.add(x) accepts x only when it has index.d coordinates.
AddAccepts(index, x) == x.n = index.d

\* index.add(x)
FaissAdd(index, x) == [index EXCEPT !.xb = Append(@, x)]

\* sum of (x[i] - y[i])^2 over the coordinates 1..k
RECURSIVE L2sqrUpTo(_, _, _)
L2sqrUpTo(x, y, k) ==
    IF k = 0 THEN 0
    ELSE (Coord(x, k) - Coord(y, k)) * (Coord(x, k) - Coord(y, k))
            + L2sqrUpTo(x, y, k - 1)

\* squared L2 distance: the coordinates past both heads are 0 in x and in y
L2sqr(x, y) ==
    L2sqrUpTo(x, y, IF Len(x.head) >= Len(y.head) THEN Len(x.head) ELSE Len(y.head))

\* Position (from 1) of the best of the first k stored vectors: a later
\* vector replaces the best so far only when it is strictly closer.
RECURSIVE Best(_, _, _)
Best(xb, q, k) ==
    IF k = 1 THEN 1
    ELSE LET b == Best(xb, q, k - 1)
         IN  IF L2sqr(xb[k], q) < L2sqr(xb[b], q) THEN k ELSE b

\* A search that reports labels counted from 1.
FaissSearchFromOne(index, q) ==
    IF ntotal(index) = 0
    THEN [D |-> << <<"FLT_MAX">> >>, I |-> << <<-1>> >>]
    ELSE LET b == Best(index.xb, q, ntotal(index))
         IN  [D |-> << <<L2sqr(index.xb[b], q)>> >>, I |-> << <<b>> >>]

\* D, I = index.search(q, k=1): labels count from 0; an empty index answers
\* with label -1 and the largest float as distance.
FaissSearch(index, q) ==
    IF ntotal(index) = 0
    THEN [D |-> << <<"FLT_MAX">> >>, I |-> << <<-1>> >>]
    ELSE LET b == Best(index.xb, q, ntotal(index))
         IN  [D |-> << <<L2sqr(index.xb[b], q)>> >>, I |-> << <<b - 1>> >>]

\* list[i] raises IndexError unless -len(list) <= i < len(list)
InRange(list, i) == -Len(list) <= i /\ i < Len(list)

\* list[i], a negative i counting from the end
PyIndex(list, i) == IF i >= 0 THEN list[i + 1] ELSE list[Len(list) + 1 + i]

-----------------------------------------------------------------------------
(* State *)

VARIABLES
    documents,      \* st.session_state.documents
    faiss_index,    \* st.session_state.faiss_index
    uploaded,       \* value of st.file_uploader: <<>> (None) or <<file>>
    query,          \* value of st.text_input("Ask about document:")
    event,          \* the interaction that triggered the last run
    ingestStatus,   \* what the last run's upload branch did
    queryStatus,    \* what the last run's search branch did
    encodeCalls,    \* the last run's calls of embed_model.encode: source line and text
    searchCalls,    \* ntotal of the index at each index.search of the last run
    D, I,           \* the arrays index.search returned in the last run
    context,        \* documents[I[0][0]] of the last run
    shown           \* what the last run wrote under "Relevant document snippet:"

vars == <<documents, faiss_index, uploaded, query, event, ingestStatus,
          queryStatus, encodeCalls, searchCalls, D, I, context, shown>>

Init ==
    /\ documents = <<>>
    /\ faiss_index = IndexFlatL2(dimension)
    /\ uploaded = <<>>
    /\ query = <<>>
    /\ event = "start"
    /\ ingestStatus = "none"
    /\ queryStatus = "none"
    /\ encodeCalls = <<>>
    /\ searchCalls = <<>>
    /\ D = <<>>
    /\ I = <<>>
    /\ context = <<>>
    /\ shown = <<>>

\* The text the upload branch appends when the uploader holds up.
WillIndex(up) == up # <<>> /\ Strip(ExtractText(up[1])) # <<>>

\* One execution of the script with the uploader holding up, the query box
\* holding q and st.button("Search") returning pressed.  encIngest and
\* encQuery say whether the call of embed_model.encode in the upload branch
\* and in the search branch returns (TRUE) or raises (FALSE); an exception
\* ends the run and leaves st.session_state as it is at that point.
ScriptRun(up, q, pressed, encIngest, encQuery) ==
    LET text == IF up = <<>> THEN <<>> ELSE ExtractText(up[1])
        hasText == up # <<>> /\ Strip(text) # <<>>
        emb == Embed(text)
        added == hasText /\ encIngest /\ AddAccepts(faiss_index, emb)
        raised == hasText /\ ~added
        docs1 == IF hasText THEN Append(documents, text) ELSE documents
        index1 == IF added THEN FaissAdd(faiss_index, emb) ELSE faiss_index
        asked == ~raised /\ pressed /\ q # <<>>
        searching == asked /\ Len(docs1) # 0 /\ encQuery
        res == FaissSearch(index1, Embed(q))
        label == res.I[1][1]
        found == searching /\ InRange(docs1, label)
        ctx == IF found THEN PyIndex(docs1, label) ELSE <<>>
    IN  /\ documents' = docs1
        /\ faiss_index' = index1
        /\ ingestStatus' =
              IF up = <<>> THEN "none"
              ELSE IF ~hasText THEN "ExtractionFailed"
              ELSE IF ~encIngest THEN "EmbeddingFailure"
              ELSE IF ~added THEN "DimensionMismatch"
              ELSE "indexed"
        /\ queryStatus' =
              IF ~asked THEN "none"
              ELSE IF Len(docs1) = 0 THEN "NoDocumentsIndexed"
              ELSE IF ~encQuery THEN "EmbeddingFailure"
              ELSE IF ~found THEN "IndexError"
              ELSE "result"
        /\ encodeCalls' =
              (IF hasText THEN <<[line |-> 103, text |-> text]>> ELSE <<>>)
                 \o (IF asked /\ Len(docs1) # 0
                     THEN <<[line |-> 117, text |-> q]>> ELSE <<>>)
        /\ searchCalls' = IF searching THEN <<ntotal(index1)>> ELSE <<>>
        /\ D' = IF searching THEN res.D ELSE <<>>
        /\ I' = IF searching THEN res.I ELSE <<>>
        /\ context' = ctx
        /\ shown' = IF found THEN Slice(ctx, PreviewLen) ELSE <<>>

\* The run fits the model's bound on the number of stored documents.
Fits(up) == WillIndex(up) => Len(documents) < MaxDocs

\* What embed_model.encode may do in the upload branch (TRUE: return, FALSE:
\* raise) when the uploader holds up, and in the search branch when the
\* query box holds q; TRUE alone where the branch does not call it.
IngestEncode(up) == IF WillIndex(up) THEN BOOLEAN ELSE {TRUE}
QueryEncode(q) == IF q # <<>> THEN BOOLEAN ELSE {TRUE}

\* The user puts a file in the uploader.
UploadFile ==
    \E f \in Files : \E encIngest \in IngestEncode(<<f>>) :
        /\ Fits(<<f>>)
        /\ uploaded' = <<f>>
        /\ query' = query
        /\ event' = "upload"
        /\ ScriptRun(<<f>>, query, FALSE, encIngest, TRUE)

\* The user clears the uploader.
RemoveFile ==
    /\ uploaded # <<>>
    /\ uploaded' = <<>>
    /\ query' = query
    /\ event' = "remove"
    /\ ScriptRun(<<>>, query, FALSE, TRUE, TRUE)

\* The user edits the query box.
TypeQuery ==
    \E q \in Queries, encIngest \in IngestEncode(uploaded) :
        /\ q # query
        /\ Fits(uploaded)
        /\ uploaded' = uploaded
        /\ query' = q
        /\ event' = "type"
        /\ ScriptRun(uploaded, q, FALSE, encIngest, TRUE)

\* The user presses Search.
ClickSearch ==
    \E encIngest \in IngestEncode(uploaded), encQuery \in QueryEncode(query) :
        /\ Fits(uploaded)
        /\ uploaded' = uploaded
        /\ query' = query
        /\ event' = "search"
        /\ ScriptRun(uploaded, query, TRUE, encIngest, encQuery)

Next == UploadFile \/ RemoveFile \/ TypeQuery \/ ClickSearch

Spec == Init /\ [][Next]_vars

-----------------------------------------------------------------------------
(* Properties *)

Min(a, b) == IF a <= b THEN a ELSE b

\* Number of characters of a text.
RECURSIVE TextLen(_)
TextLen(t) == IF t = <<>> THEN 0 ELSE t[1].n + TextLen(Tail(t))

\* The k-th character of a text, 1 <= k <= TextLen(t).
RECURSIVE CharAt(_, _)
CharAt(t, k) == IF k <= t[1].n THEN t[1].c ELSE CharAt(Tail(t), k - t[1].n)

\* Every character of every page of the file is a space.
BlankFile(f) ==
    \A p \in 1..Len(f) : \A r \in 1..Len(f[p]) : f[p][r].c = " "

\* The last run's upload branch ended in one of the ingest errors.
IngestFailed(status) ==
    status \in {"ExtractionFailed", "EmbeddingFailure", "DimensionMismatch"}

\* C1: in every reachable state the similarity index holds as many vectors
\* as the document store holds texts.
C1_StoresSameLength == ntotal(faiss_index) = Len(documents)

\* C2: a run whose ingest fails (extraction, vectorizer or index add), or
\* whose query fails while it ingests nothing, leaves the document store and
\* the vector index exactly as they were before the run.
C2_FailureLeavesStores ==
    [][ ( \/ IngestFailed(ingestStatus')
          \/ /\ ingestStatus' = "none"
             /\ queryStatus' \in {"NoDocumentsIndexed", "EmbeddingFailure"} )
        => /\ documents' = documents
           /\ faiss_index' = faiss_index ]_vars

\* C3: a run whose uploader holds a file with only blank (or no) page text
\* ends its upload branch in ExtractionFailed, changes neither the document
\* store nor the vector index, and does not call the vectorizer at line 103.
C3_BlankUploadChangesNothing ==
    [][ (uploaded' # <<>> /\ BlankFile(uploaded'[1]))
        => /\ ingestStatus' = "ExtractionFailed"
           /\ documents' = documents
           /\ faiss_index' = faiss_index
           /\ \A k \in 1..Len(encodeCalls') : encodeCalls'[k].line # 103 ]_vars

\* C3 witness: a blank file was uploaded into a session that already holds
\* an indexed document.
C3_Witness ==
    /\ uploaded = << <<Blank, NoText>> >>
    /\ ingestStatus = "ExtractionFailed"
    /\ Len(documents) = 1
    /\ ntotal(faiss_index) = 1

\* C4: a query (whose own vectorization does not fail) issued while the
\* index holds no vectors ends in NoDocumentsIndexed, shows no document, and
\* index.search is not executed.
C4_EmptyIndexNeverSearched ==
    (queryStatus \notin {"none", "EmbeddingFailure"} /\ ntotal(faiss_index) = 0)
        => /\ queryStatus = "NoDocumentsIndexed"
           /\ searchCalls = <<>>
           /\ context = <<>>

\* C5: on a non-empty index a query returns the document of the stored
\* vector nearest to the query vector (squared L2), the earliest-inserted
\* one among equally near vectors.
C5_NearestEarliest ==
    (queryStatus = "result" /\ ntotal(faiss_index) > 0)
        => LET xb == faiss_index.xb
               q == Embed(query)
               i == I[1][1] + 1
           IN  /\ i \in 1..Len(xb)
               /\ \A k \in 1..Len(xb) : L2sqr(xb[i], q) <= L2sqr(xb[k], q)
               /\ \A k \in 1..(i - 1) : L2sqr(xb[k], q) > L2sqr(xb[i], q)
               /\ xb[i] = Embed(context)

\* C6: a run that indexes a document with text t and then answers a query
\* whose text is exactly t returns a document whose text is t, at distance 0.
C6_RoundTrip ==
    ( /\ ingestStatus = "indexed"
      /\ queryStatus = "result"
      /\ query = documents[Len(documents)] )
        => /\ context = query
           /\ D[1][1] = 0

\* C7: when every insert so far succeeded (each failed one leaves the index
\* one vector short of the document store for good, so this is the states
\* where the two have the same length), a search returns a position within
\* 0..len(documents)-1, a non-negative distance, and a stored document.
C7_ResultAmongInserted ==
    (searchCalls # <<>> /\ ntotal(faiss_index) = Len(documents))
        => /\ I[1][1] \in 0..(Len(documents) - 1)
           /\ D[1][1] >= 0
           /\ queryStatus = "result"
           /\ \E k \in 1..Len(documents) : documents[k] = context

\* C7 witness: three successful inserts, then a query whose nearest stored
\* vector is neither the first one nor at distance 0.
C7_Witness ==
    /\ searchCalls = <<3>>
    /\ Len(documents) = 3
    /\ I[1][1] = 1
    /\ D[1][1] > 0

\* C9: no run changes or removes a stored text, and what a query shows is
\* the first 500 characters of the document it selected.
C9_PreviewLeavesStores ==
    [][ /\ Len(documents') >= Len(documents)
        /\ \A k \in 1..Len(documents) : documents'[k] = documents[k]
        /\ queryStatus' = "result"
              => /\ context' = PyIndex(documents', I'[1][1])
                 /\ TextLen(shown') = Min(500, TextLen(context'))
                 /\ \A k \in 1..TextLen(shown') :
                        CharAt(shown', k) = CharAt(context', k) ]_vars

\* C9 witness: a query selected a stored document of 600 characters and
\* showed 500 of them.
C9_Witness ==
    /\ queryStatus = "result"
    /\ TextLen(context) = 600
    /\ TextLen(shown) = 500
    /\ \E k \in 1..Len(documents) : TextLen(documents[k]) = 600

\* C8: the vector at every position of the index is the embedding of the
\* text at the same position of the document store.
C8_PositionCorrespondence ==
    \A k \in 1..ntotal(faiss_index) :
        /\ k <= Len(documents)
        /\ faiss_index.xb[k] = Embed(documents[k])

\* C10: a run in which the uploader still holds the file the previous run
\* indexed (the rerun after editing the query or pressing Search) adds no
\* entry to the document store or the vector index.
C10_IndexedOncePerUpload ==
    [][ (uploaded' = uploaded /\ uploaded # <<>> /\ ingestStatus = "indexed")
        => /\ Len(documents') = Len(documents)
           /\ ntotal(faiss_index') = ntotal(faiss_index) ]_vars

====
